---- MODULE Spec2Model ----
(***************************************************************************)
(* Model of sequence_decoder.py: the argument loop, the read of the        *)
(* recording, eval of its text, the chr() decode loop, the optional        *)
(* "\x1b" -> "ESC" rewriting and the two presentations (repr of the whole  *)
(* string, or one numbered line per "ESC"-separated command).              *)
(*                                                                         *)
(* A Python str is modelled as a sequence of one-character strings.  A     *)
(* command line argument is a sequence of tokens: an option name is one    *)
(* token, every other character is a token of its own.                     *)
(***************************************************************************)
EXTENDS Integers, Sequences, FiniteSets, TLC

\* ------------------------------------------------------------------ bounds
MaxLen == 4        \* longest list literal in the recording
MaxExprLen == 2    \* longest operand of the other kinds of expression
MaxArgs == 2       \* longest argument list

\* --------------------------------------------------------------- constants
ESC == 27
MaxUnicode == 1114111

EscChar == "^["
SurrogateChar == "<D800>"
EscToken == <<"E", "S", "C">>

DefaultFilename == <<"sequence.bin">>
RecordingPathOpt == <<"--recording-path">>
ConvertEscapeArg == <<"--convert-escape">>
SplitCommandsArg == <<"--split-commands">>

\* ------------------------------------------------------ str / list methods
\* str.startswith(prefix)
StartsWith(s, prefix) ==
    /\ Len(s) >= Len(prefix)
    /\ SubSeq(s, 1, Len(prefix)) = prefix

\* str.find(sep, start): the lowest index >= start where sep occurs, 0 if none
Find(s, sep, start) ==
    LET hits == {j \in start..(Len(s) - Len(sep) + 1) :
                    SubSeq(s, j, j + Len(sep) - 1) = sep}
    IN IF hits = {} THEN 0
       ELSE CHOOSE j \in hits : \A k \in hits : j <= k

RECURSIVE SplitFrom(_, _, _)
SplitFrom(s, sep, pos) ==
    LET j == Find(s, sep, pos)
    IN IF j = 0 THEN <<SubSeq(s, pos, Len(s))>>
       ELSE <<SubSeq(s, pos, j - 1)>> \o SplitFrom(s, sep, j + Len(sep))

\* variant: splits on the escape character itself, never on the token
SplitOnEscChar(s, sep) == SplitFrom(s, <<EscChar>>, 1)

\* str.split(sep)
Split(s, sep) == SplitFrom(s, sep, 1)

RECURSIVE ReplaceFrom(_, _, _, _)
ReplaceFrom(s, old, new, pos) ==
    LET j == Find(s, old, pos)
    IN IF j = 0 THEN SubSeq(s, pos, Len(s))
       ELSE SubSeq(s, pos, j - 1) \o new \o ReplaceFrom(s, old, new, j + Len(old))

\* variant: str.replace(old, new, 1), only the first occurrence
ReplaceFirst(s, old, new) ==
    LET j == Find(s, old, 1)
    IN IF j = 0 THEN s
       ELSE SubSeq(s, 1, j - 1) \o new \o SubSeq(s, j + Len(old), Len(s))

\* str.replace(old, new)
Replace(s, old, new) == ReplaceFrom(s, old, new, 1)

\* variant: list.insert(0, x)
ListPrepend(lst, x) == <<x>> \o lst

\* list.append(x)
ListAppend(lst, x) == Append(lst, x)

RECURSIVE Join(_, _)
\* sep.join(parts)
Join(parts, sep) ==
    IF parts = <<>> THEN <<>>
    ELSE IF Len(parts) = 1 THEN parts[1]
    ELSE parts[1] \o sep \o Join(Tail(parts), sep)

Digit(d) == CASE d = 0 -> "0" [] d = 1 -> "1" [] d = 2 -> "2" [] d = 3 -> "3"
              [] d = 4 -> "4" [] d = 5 -> "5" [] d = 6 -> "6" [] d = 7 -> "7"
              [] d = 8 -> "8" [] d = 9 -> "9"

RECURSIVE Str(_)
\* the decimal text of a non-negative int, as f"{i}" formats it
Str(n) == IF n < 10 THEN <<Digit(n)>> ELSE Str(n \div 10) \o <<Digit(n % 10)>>

\* ------------------------------------------------------------ chr and repr
\* chr() on the codepoints of the model; a surrogate IS accepted by chr()
CharTable(n) ==
    CASE n = 27 -> EscChar
      [] n = 39 -> "'"
      [] n = 67 -> "C"
      [] n = 69 -> "E"
      [] n = 83 -> "S"
      [] n = 55296 -> SurrogateChar

IntEl(n) == [type |-> "int", value |-> n]
StrEl == [type |-> "str", value |-> 0]

\* chr(number): TypeError for a non-int, ValueError outside range(0x110000)
Chr(number) ==
    IF number.type # "int" THEN [exc |-> "TypeError", str |-> <<>>]
    ELSE IF number.value < 0 \/ number.value > MaxUnicode
         THEN [exc |-> "ValueError", str |-> <<>>]
    ELSE [exc |-> "none", str |-> <<CharTable(number.value)>>]

\* how repr() renders one character inside the quotes
ReprChar(c, quote) ==
    IF c = quote THEN <<"\\", c>>
    ELSE IF c = EscChar THEN <<"\\", "x", "1", "b">>
    ELSE IF c = SurrogateChar THEN <<"\\", "u", "d", "8", "0", "0">>
    ELSE <<c>>

RECURSIVE ReprBody(_, _)
ReprBody(s, quote) ==
    IF s = <<>> THEN <<>>
    ELSE ReprChar(Head(s), quote) \o ReprBody(Tail(s), quote)

\* variant: nothing at all for the empty string
ReprNoEmpty(s) ==
    IF s = <<>> THEN <<>> ELSE <<"'">> \o ReprBody(s, "'") \o <<"'">>

\* repr(str): single quotes unless the text has a ' and no "
Repr(s) ==
    LET hasSingle == \E k \in 1..Len(s) : s[k] = "'"
        hasDouble == \E k \in 1..Len(s) : s[k] = "\""
        quote == IF hasSingle /\ ~hasDouble THEN "\"" ELSE "'"
    IN <<quote>> \o ReprBody(s, quote) \o <<quote>>

\* ------------------------------------------------------------------- eval
\* The text of the recording, by its shape:
\*   "list"       [a, b, c]      a list display
\*   "bare"       a, b, c        the same without brackets
\*   "repeat"     [a, b] * 2     an expression that is not a literal
\*   "unbalanced" [a, b          a missing bracket
\*   "words"      not a list     no list at all
NoValue == [iterable |-> FALSE, items |-> <<>>]

EvalContents(c) ==
    CASE c.form = "list" ->
            [exc |-> "none", value |-> [iterable |-> TRUE, items |-> c.items]]
      [] c.form = "bare" ->
            IF c.items = <<>> THEN [exc |-> "SyntaxError", value |-> NoValue]
            ELSE IF Len(c.items) = 1
                 \* one int is not iterable; one str literal iterates itself
                 THEN [exc |-> "none",
                       value |-> [iterable |-> c.items[1].type = "str",
                                  items |-> c.items]]
            ELSE [exc |-> "none", value |-> [iterable |-> TRUE, items |-> c.items]]
      [] c.form = "repeat" ->
            [exc |-> "none",
             value |-> [iterable |-> TRUE, items |-> c.items \o c.items]]
      [] OTHER -> [exc |-> "SyntaxError", value |-> NoValue]

\* ------------------------------------------------------------------ inputs
CodepointPool == {-1, ESC, 39, 67, 69, 83, 55296, MaxUnicode + 1}
Elements == {IntEl(n) : n \in CodepointPool} \cup {StrEl}

SeqsUpTo(S, n) == UNION {[1..k -> S] : k \in 0..n}

ListTexts(n) == {[form |-> "list", items |-> it] : it \in SeqsUpTo(Elements, n)}
OtherTexts(n) ==
    {[form |-> f, items |-> it] : f \in {"bare", "repeat"}, it \in SeqsUpTo(Elements, n)}
    \cup {[form |-> f, items |-> <<>>] : f \in {"unbalanced", "words"}}

NoContents == [form |-> "unread", items |-> <<>>]

\* what open()/read() meets at a non-empty path
Disks(texts) ==
    {[status |-> "ok", text |-> t] : t \in texts}
    \cup {[status |-> st, text |-> NoContents] : st \in {"missing", "unreadable"}}

ArgPool ==
    { ConvertEscapeArg, SplitCommandsArg, <<"--verbose">>,
      RecordingPathOpt,
      RecordingPathOpt \o <<"=">>,
      RecordingPathOpt \o <<"=", "a">>,
      RecordingPathOpt \o <<"=", "a", "=", "b">> }

FlagArgvs ==
    { <<>>, <<ConvertEscapeArg>>, <<SplitCommandsArg>>,
      <<ConvertEscapeArg, SplitCommandsArg>> }

SmallTexts ==
    { [form |-> "list", items |-> <<IntEl(ESC), IntEl(69)>>],
      [form |-> "list", items |-> <<IntEl(-1)>>],
      [form |-> "words", items |-> <<>>] }

\* ------------------------------------------------------------------- state
VARIABLES
    pc,                  \* the statement the script is at
    argv, argi,          \* sys.argv[1:] and the position of the argument loop
    filename, convert_escape, split_commands,
    disk,                \* the file system at the path that is opened
    contents,            \* f.read()
    sequence, n,         \* eval(contents) and the position of the decode loop
    decoded_characters, decoded_string,
    commands, i,
    stdout, stderr,      \* lines printed; tracebacks of uncaught exceptions
    error                \* the exception that ended the run, "none" otherwise

vars == <<pc, argv, argi, filename, convert_escape, split_commands, disk,
          contents, sequence, n, decoded_characters, decoded_string,
          commands, i, stdout, stderr, error>>

Terminal == pc \in {"done", "exited", "crashed"}

\* the exit status of the process once it has ended
ExitStatus == IF pc = "done" THEN 0 ELSE 1

Init ==
    /\ \/ argv \in FlagArgvs /\ disk \in Disks(ListTexts(MaxLen) \cup OtherTexts(MaxExprLen))
       \/ argv \in SeqsUpTo(ArgPool, MaxArgs) /\ disk \in Disks(SmallTexts)
    /\ pc = IF argv = <<>> THEN "open" ELSE "args"
    /\ argi = 1
    /\ filename = DefaultFilename
    /\ convert_escape = FALSE
    /\ split_commands = FALSE
    /\ contents = NoContents
    /\ sequence = NoValue
    /\ n = 1
    /\ decoded_characters = <<>>
    /\ decoded_string = <<>>
    /\ commands = <<>>
    /\ i = 0
    /\ stdout = <<>>
    /\ stderr = <<>>
    /\ error = "none"

\* an uncaught exception: traceback on stderr, the interpreter exits with 1
Raise(exc) ==
    /\ pc' = "crashed"
    /\ error' = exc
    /\ stderr' = Append(stderr, exc)

\* ------------------------------------------------------- the argument loop
\* one iteration of "for arg in sys.argv[1:]"
ArgStep ==
    /\ pc = "args"
    /\ LET arg == argv[argi]
           parts == Split(arg, <<"=">>)
       IN IF StartsWith(arg, RecordingPathOpt)
          THEN IF Len(parts) < 2
               THEN /\ Raise("IndexError")
                    /\ UNCHANGED <<argi, filename, convert_escape, split_commands>>
               ELSE /\ filename' = parts[2]
                    /\ argi' = argi + 1
                    /\ pc' = IF argi' > Len(argv) THEN "open" ELSE "args"
                    /\ UNCHANGED <<convert_escape, split_commands, error, stderr>>
          ELSE /\ IF arg = ConvertEscapeArg
                  THEN convert_escape' = TRUE /\ UNCHANGED split_commands
                  ELSE IF arg = SplitCommandsArg
                  THEN split_commands' = TRUE /\ UNCHANGED convert_escape
                  ELSE UNCHANGED <<convert_escape, split_commands>>
               /\ argi' = argi + 1
               /\ pc' = IF argi' > Len(argv) THEN "open" ELSE "args"
               /\ UNCHANGED <<filename, error, stderr>>
    /\ UNCHANGED <<argv, disk, contents, sequence, n, decoded_characters,
                   decoded_string, commands, i, stdout>>

\* ------------------------------------------------------------ open / read
OpenFile ==
    /\ pc = "open"
    /\ IF filename = <<>> \/ disk.status = "missing"
       THEN /\ stdout' = Append(stdout, <<"File ">> \o filename \o <<" not found.">>)
            /\ error' = "FileNotFoundError"
            /\ pc' = "exited"
            /\ UNCHANGED contents
       ELSE IF disk.status = "unreadable"
       THEN /\ stdout' = Append(stdout, <<"An error occurred: ", "OSError">>)
            /\ error' = "OSError"
            /\ pc' = "exited"
            /\ UNCHANGED contents
       ELSE /\ contents' = disk.text
            /\ pc' = "eval"
            /\ UNCHANGED <<stdout, error>>
    /\ UNCHANGED <<argv, argi, filename, convert_escape, split_commands, disk,
                   sequence, n, decoded_characters, decoded_string, commands,
                   i, stderr>>

\* sequence = eval(contents)
Eval ==
    /\ pc = "eval"
    /\ LET r == EvalContents(contents)
       IN IF r.exc # "none"
          THEN /\ Raise(r.exc)
               /\ UNCHANGED sequence
          ELSE /\ sequence' = r.value
               /\ pc' = "decode"
               /\ UNCHANGED <<error, stderr>>
    /\ UNCHANGED <<argv, argi, filename, convert_escape, split_commands, disk,
                   contents, n, decoded_characters, decoded_string, commands,
                   i, stdout>>

\* ------------------------------------------------------------ decode loop
\* one iteration of "for number in sequence: append(chr(number))"
DecodeStep ==
    /\ pc = "decode"
    /\ ~sequence.iterable \/ n <= Len(sequence.items)
    /\ IF ~sequence.iterable
       THEN /\ Raise("TypeError")
            /\ UNCHANGED <<n, decoded_characters>>
       ELSE LET r == Chr(sequence.items[n])
            IN IF r.exc # "none"
               THEN /\ Raise(r.exc)
                    /\ UNCHANGED <<n, decoded_characters>>
               ELSE /\ decoded_characters' = ListAppend(decoded_characters, r.str)
                    /\ n' = n + 1
                    /\ UNCHANGED <<pc, error, stderr>>
    /\ UNCHANGED <<argv, argi, filename, convert_escape, split_commands, disk,
                   contents, sequence, decoded_string, commands, i, stdout>>

\* decoded_string = "".join(decoded_characters)
JoinCharacters ==
    /\ pc = "decode"
    /\ sequence.iterable
    /\ n > Len(sequence.items)
    /\ decoded_string' = Join(decoded_characters, <<>>)
    /\ pc' = "convert"
    /\ UNCHANGED <<argv, argi, filename, convert_escape, split_commands, disk,
                   contents, sequence, n, decoded_characters, commands, i,
                   stdout, stderr, error>>

\* if convert_escape: decoded_string = decoded_string.replace("\x1b", "ESC")
ConvertEscape ==
    /\ pc = "convert"
    /\ decoded_string' = IF convert_escape
                         THEN Replace(decoded_string, <<EscChar>>, EscToken)
                         ELSE decoded_string
    /\ pc' = "present"
    /\ UNCHANGED <<argv, argi, filename, convert_escape, split_commands, disk,
                   contents, sequence, n, decoded_characters, commands, i,
                   stdout, stderr, error>>

\* ------------------------------------------------------------ presentation
\* variant: numbering that starts at 1
CommandLineFromOne(idx, command) ==
    <<"N">> \o Str(idx + 1) \o <<" ">> \o EscToken \o <<" ">> \o Repr(command)

\* f"N{i} ESC " + repr(command)
CommandLine(idx, command) ==
    <<"N">> \o Str(idx) \o <<" ">> \o EscToken \o <<" ">> \o Repr(command)

\* the non-split branch, or the split that starts the command loop
Present ==
    /\ pc = "present"
    /\ IF split_commands
       THEN /\ commands' = Split(decoded_string, EscToken)
            /\ i' = 0
            /\ pc' = "emit"
            /\ UNCHANGED stdout
       ELSE /\ stdout' = Append(stdout, Repr(decoded_string))
            /\ pc' = "done"
            /\ UNCHANGED <<commands, i>>
    /\ UNCHANGED <<argv, argi, filename, convert_escape, split_commands, disk,
                   contents, sequence, n, decoded_characters, decoded_string,
                   stderr, error>>

\* one iteration of "for command in commands: print(...); i += 1"
EmitCommand ==
    /\ pc = "emit"
    /\ i < Len(commands)
    /\ stdout' = Append(stdout, CommandLine(i, commands[i + 1]))
    /\ i' = i + 1
    /\ pc' = IF i' = Len(commands) THEN "done" ELSE "emit"
    /\ UNCHANGED <<argv, argi, filename, convert_escape, split_commands, disk,
                   contents, sequence, n, decoded_characters, decoded_string,
                   commands, stderr, error>>

Next ==
    \/ ArgStep
    \/ OpenFile
    \/ Eval
    \/ DecodeStep
    \/ JoinCharacters
    \/ ConvertEscape
    \/ Present
    \/ EmitCommand

Spec == Init /\ [][Next]_vars

\* ================================================================== claims
\* the decoded text before any escape conversion, character by character
RawText == [k \in 1..Len(decoded_characters) |-> decoded_characters[k][1]]

Count(s, c) == Cardinality({k \in 1..Len(s) : s[k] = c})

\* the positions of the decoded text where the token E,S,C starts
OccPositions(s) == {j \in 1..(Len(s) - 2) : <<s[j], s[j + 1], s[j + 2]>> = EscToken}

\* the k-th position of OccPositions, k = 1, 2, ...
NthOcc(s, k) ==
    CHOOSE p \in OccPositions(s) :
        Cardinality({q \in OccPositions(s) : q < p}) = k - 1

\* the k-th piece of s between occurrences of the token, k = 0 .. N
Segment(s, k) ==
    LET N == Cardinality(OccPositions(s))
        first == IF k = 0 THEN 1 ELSE NthOcc(s, k) + 3
        last == IF k = N THEN Len(s) ELSE NthOcc(s, k + 1) - 1
    IN SubSeq(s, first, last)

\* C1: in split mode the emitted segments, joined in index order with the
\* token ESC between them, give back exactly the text that was split, and
\* each line written carries the segment of its index.
C1_JoinInvertsSplit ==
    (split_commands /\ pc \in {"emit", "done"}) =>
        /\ Join(commands, EscToken) = decoded_string
        /\ \A k \in 1..Len(stdout) : stdout[k] = CommandLine(k - 1, commands[k])
        /\ (pc = "done" => Len(stdout) = Len(commands))

C1_Witness ==
    /\ pc = "done" /\ split_commands /\ convert_escape
    /\ Len(stdout) = 3
    /\ \E k \in 1..3 : commands[k] = <<>>
    /\ \E k \in 1..3 : commands[k] # <<>>

\* C2: in split mode a text with N occurrences of the token ESC is written
\* as exactly N+1 lines; line i (from 0) is "N<i> ESC " followed by the repr
\* of the i-th piece between occurrences, empty pieces included.
C2_NumberedSegments ==
    (split_commands /\ pc = "done") =>
        LET N == Cardinality(OccPositions(decoded_string))
        IN /\ Len(stdout) = N + 1
           /\ \A k \in 0..N :
                 stdout[k + 1] = <<"N">> \o Str(k) \o <<" ", "E", "S", "C", " ">>
                                  \o Repr(Segment(decoded_string, k))

C2_Witness ==
    /\ pc = "done" /\ split_commands
    /\ Cardinality(OccPositions(decoded_string)) = 2
    /\ Len(stdout) = 3
    /\ Segment(decoded_string, 1) = <<>>
    /\ Segment(decoded_string, 2) # <<>>

\* C3 (as claimed): with both options on, an input with k elements equal to
\* 27 is written as exactly k+1 segments.
C3_SegmentsOnlyAtEscape ==
    (convert_escape /\ split_commands /\ pc = "done") =>
        Len(stdout) = Cardinality({k \in 1..Len(sequence.items) :
                                      sequence.items[k] = IntEl(ESC)}) + 1

IsScalarValue(el) ==
    /\ el.type = "int"
    /\ el.value >= 0 /\ el.value <= MaxUnicode
    /\ ~(el.value >= 55296 /\ el.value <= 57343)

\* C4 (as claimed): a sequence with an integer outside the Unicode scalar
\* range ends in a decode error and nothing is written to the output.
C4_InvalidScalarFails ==
    (Terminal /\ \E k \in 1..Len(sequence.items) :
                    /\ sequence.items[k].type = "int"
                    /\ ~IsScalarValue(sequence.items[k])) =>
        /\ error \in {"ValueError", "TypeError"}
        /\ stdout = <<>>

NotIntegerList(c) ==
    \/ c.form \in {"unbalanced", "words", "repeat"}
    \/ c.form = "bare" /\ c.items = <<>>
    \/ /\ c.form \in {"list", "bare"}
       /\ \E k \in 1..Len(c.items) : c.items[k].type # "int"

\* C5 (as claimed): a text that is not a literal list of integers ends in a
\* parse error, no element is decoded and nothing is written.
C5_NonLiteralRejected ==
    (Terminal /\ NotIntegerList(contents)) =>
        /\ error = "SyntaxError"
        /\ decoded_characters = <<>>
        /\ stdout = <<>>

\* C6 (as claimed): when the input cannot be opened the run ends with a
\* non-zero status, the diagnostic is on the error stream, the output stream
\* is empty, and neither eval nor the decode loop ran.
C6_UnopenableInput ==
    (Terminal /\ error \in {"FileNotFoundError", "OSError"}) =>
        /\ ExitStatus # 0
        /\ stderr # <<>>
        /\ stdout = <<>>
        /\ sequence = NoValue
        /\ decoded_characters = <<>>

Ord(c) ==
    CASE c = "E" -> 69 [] c = "S" -> 83 [] c = "C" -> 67
      [] c = "'" -> 39 [] c = EscChar -> 27 [] c = SurrogateChar -> 55296

\* C7: for a list of valid codepoints the decoded text, before any escape
\* conversion, has one character per element and the codepoints of its
\* characters, in order, are the list.
C7_DecodeRoundTrip ==
    (pc = "convert" /\ \A k \in 1..Len(sequence.items) :
                          IsScalarValue(sequence.items[k])) =>
        /\ Len(decoded_string) = Len(sequence.items)
        /\ \A k \in 1..Len(decoded_string) :
              Ord(decoded_string[k]) = sequence.items[k].value

C7_Witness ==
    /\ pc = "convert"
    /\ Len(decoded_string) = 3
    /\ decoded_string[1] # decoded_string[2]
    /\ decoded_string[2] # decoded_string[3]
    /\ \A k \in 1..3 : IsScalarValue(sequence.items[k])

RECURSIVE Expand(_)
\* every escape character written out as E, S, C, the others kept
Expand(s) ==
    IF s = <<>> THEN <<>>
    ELSE (IF Head(s) = EscChar THEN <<"E", "S", "C">> ELSE <<Head(s)>>)
         \o Expand(Tail(s))

RECURSIVE CountIn(_, _)
CountIn(parts, c) ==
    IF parts = <<>> THEN 0 ELSE Count(Head(parts), c) + CountIn(Tail(parts), c)

C9_EmptySequence ==
    (sequence.iterable /\ sequence.items = <<>>) =>
        /\ decoded_string = <<>>
        /\ error = "none"
        /\ (Terminal => pc = "done")
        /\ pc = "done" =>
              stdout = IF split_commands
                       THEN << <<"N", "0", " ", "E", "S", "C", " ", "'", "'">> >>
                       ELSE << <<"'", "'">> >>

C9_Witness ==
    /\ pc = "done" /\ split_commands /\ convert_escape
    /\ sequence.iterable /\ sequence.items = <<>>
    /\ Len(stdout) = 1

\* the path of the last argument "--recording-path=<path>", or the default
ExpectedPath ==
    LET opt == RecordingPathOpt \o <<"=">>
        ks == {k \in 1..Len(argv) : StartsWith(argv[k], opt)}
    IN IF ks = {} THEN DefaultFilename
       ELSE LET k == CHOOSE m \in ks : \A j \in ks : j <= m
            IN SubSeq(argv[k], Len(opt) + 1, Len(argv[k]))

\* C10 (as claimed): the argument loop never fails, and after it the two
\* flags are set iff their argument occurs and the path is that of the last
\* "--recording-path=<path>" argument, or the default.
C10_ArgumentLoop ==
    (pc # "args") =>
        /\ error # "IndexError"
        /\ convert_escape = (\E k \in 1..Len(argv) : argv[k] = ConvertEscapeArg)
        /\ split_commands = (\E k \in 1..Len(argv) : argv[k] = SplitCommandsArg)
        /\ filename = ExpectedPath

====
